---- MODULE Spec2Model ----
(***************************************************************************)
(* Logging configuration subsystem of the LFN Audio Toolkit                *)
(* (LFN_Audio_Toolkit_Production/src/lfn_logging.py).                      *)
(*                                                                         *)
(* The registry of named loggers is process-wide state; get_logger         *)
(* reconfigures one entry, and a record logged through an entry fans out   *)
(* to the handlers attached to it.                                         *)
(***************************************************************************)
EXTENDS Integers, Sequences, FiniteSets, TLC

(***************************************************************************)
(* Bounds of the model.                                                    *)
(***************************************************************************)
\* distinct module names configured in one run of Spec
MaxLoggers == 1
\* file streams that may be open on behalf of one module name
MaxOpen == 2
\* get_logger calls one thread makes in SpecThreads
MaxThreadCalls == 1
\* positional arguments of a call through a log_function_call wrapper
MaxArgs == 2

\* records written through one rotating handler
MaxWrites == 12

\* frames in the traceback of a logged exception
MaxFrames == 3

\* create_session_log calls, and the seconds the clock runs through
MaxSessions == 2

MaxSeconds == 1

(***************************************************************************)
(* Severities (the numeric levels of the logging library).                 *)
(***************************************************************************)
NOTSET == 0
DEBUG == 10
INFO == 20
WARNING == 30
ERROR == 40
CRITICAL == 50

Severities == {DEBUG, INFO, WARNING, ERROR, CRITICAL}

DEFAULT_LOG_LEVEL == INFO

\* log_level=None: the caller supplied no level
None == -1

\* levelname of a record, as the logging library derives it from levelno
LevelName(levelno) ==
    CASE levelno = DEBUG -> "DEBUG"
      [] levelno = INFO -> "INFO"
      [] levelno = WARNING -> "WARNING"
      [] levelno = ERROR -> "ERROR"
      [] levelno = CRITICAL -> "CRITICAL"

COLORS ==
    [ DEBUG |-> "ESC[36m", INFO |-> "ESC[32m", WARNING |-> "ESC[33m",
      ERROR |-> "ESC[31m", CRITICAL |-> "ESC[35m", RESET |-> "ESC[0m" ]

EscapeCodes == { COLORS[k] : k \in DOMAIN COLORS }

(***************************************************************************)
(* Inputs.  Module and file names are sequences of tokens, so that the     *)
(* substring tests and replacements of the code act on their parts.        *)
(***************************************************************************)
ModuleNames == { <<"pkg">>, <<"pkg", ".", "batch">> }

\* a log_to_file value: the keyword is absent, a bool, or a file name
Absent == [tag |-> "absent", b |-> FALSE, s |-> <<>>]
PyBool(x) == [tag |-> "bool", b |-> x, s |-> <<>>]
PyStr(tokens) == [tag |-> "str", b |-> FALSE, s |-> tokens]

FileArgs == { Absent, PyBool(FALSE), PyBool(TRUE), PyStr(<<"app", ".log">>) }

\* values of the log_level keyword: None or one of the severities
LevelArgs == {None} \cup Severities

\* the process environment: LFN_LOG_LEVEL, LFN_DEBUG, LFN_LOG_FILE (empty
\* when the variable is not set)
EnvLevels == { "", "error", "Debug", "verbose" }
EnvDebugs == { "", "1" }
EnvLogFiles == { <<>>, <<"trace", ".txt">> }

Environments ==
    [ LFN_LOG_LEVEL : EnvLevels, LFN_DEBUG : EnvDebugs, LFN_LOG_FILE : EnvLogFiles ]

\* what the file system does to one call: everything works, the log
\* directory cannot be created, the general log file cannot be opened, the
\* errors-only log file cannot be opened
FsOutcomes == { "ok", "mkdir_fails", "open_fails", "error_open_fails" }

\* an environment level read without the call of upper()
Upper_AsIs(s) == s

(***************************************************************************)
(* str.upper on the modelled environment values.                           *)
(***************************************************************************)
Upper(s) ==
    CASE s = "error" -> "ERROR"
      [] s = "Debug" -> "DEBUG"
      [] s = "verbose" -> "VERBOSE"
      [] OTHER -> s

level_map ==
    [ DEBUG |-> DEBUG, INFO |-> INFO, WARNING |-> WARNING,
      ERROR |-> ERROR, CRITICAL |-> CRITICAL ]

get_log_level_from_env(environ) ==
    LET level_name == Upper(environ.LFN_LOG_LEVEL)
    IN  IF level_name \in DOMAIN level_map
        THEN level_map[level_name]
        ELSE DEFAULT_LOG_LEVEL

\* Python truthiness of a log_to_file value (None, a bool, a str)
Truthy(v) ==
    CASE v.tag = "absent" -> FALSE
      [] v.tag = "bool" -> v.b
      [] v.tag = "str" -> v.s # <<>>

(***************************************************************************)
(* Token sequences: substring test and str.replace.                        *)
(***************************************************************************)
Contains(name, fragment) == \E i \in DOMAIN name : name[i] = fragment

RECURSIVE Replace(_, _, _)
Replace(name, old, new) ==
    IF name = <<>> THEN <<>>
    ELSE (IF Head(name) = old THEN new ELSE <<Head(name)>>)
         \o Replace(Tail(name), old, new)

FileLoggingFragments == { "batch", "realtime", "recorder", "health" }

(***************************************************************************)
(* get_logger: the log_to_file value handed on to setup_logging.           *)
(***************************************************************************)
\* a get_logger without the naming default of lines 202-206
KwargsLogToFile_NoDefault(module_name, log_to_file, environ) ==
    IF environ.LFN_LOG_FILE # <<>> /\ log_to_file.tag = "absent"
    THEN PyStr(environ.LFN_LOG_FILE)
    ELSE log_to_file

KwargsLogToFile(module_name, log_to_file, environ) ==
    IF environ.LFN_LOG_FILE # <<>> /\ log_to_file.tag = "absent"
    THEN PyStr(environ.LFN_LOG_FILE)
    ELSE IF log_to_file.tag = "absent"
         THEN IF \E name \in FileLoggingFragments : Contains(module_name, name)
              THEN PyBool(TRUE)
              ELSE Absent
         ELSE log_to_file

(***************************************************************************)
(* setup_logging, statement by statement.  A frame holds the arguments of  *)
(* one call and what its surroundings do to it; a position names the       *)
(* statement about to run.                                                 *)
(***************************************************************************)
Frames ==
    [ module_name : ModuleNames, log_to_file : FileArgs, log_to_console : BOOLEAN,
      log_level : LevelArgs, environ : Environments, fs : FsOutcomes,
      reclaim : BOOLEAN ]

NewLogger == [level |-> NOTSET, handlers |-> <<>>]

LogLevel(f) ==
    IF f.log_level = None THEN get_log_level_from_env(f.environ) ELSE f.log_level

LogFilename(f) ==
    LET log_to_file == KwargsLogToFile(f.module_name, f.log_to_file, f.environ)
    IN  IF log_to_file.tag = "str"
        THEN log_to_file.s
        ELSE <<"lfn_">> \o Replace(f.module_name, ".", <<"_">>) \o <<".log">>

ErrorLogFilename(f) == Replace(LogFilename(f), ".log", <<"_error", ".log">>)

ConsoleHandler(f) ==
    [ var |-> "console_handler", class |-> "StreamHandler", level |-> LogLevel(f),
      formatter |-> "ColoredFormatter", baseFilename |-> <<>> ]

FileHandler(f) ==
    [ var |-> "file_handler", class |-> "RotatingFileHandler", level |-> LogLevel(f),
      formatter |-> "detailed_formatter", baseFilename |-> LogFilename(f) ]

ErrorHandler(f) ==
    [ var |-> "error_handler", class |-> "RotatingFileHandler", level |-> ERROR,
      formatter |-> "detailed_formatter", baseFilename |-> ErrorLogFilename(f) ]

FileEnabled(f) == Truthy(KwargsLogToFile(f.module_name, f.log_to_file, f.environ))

DebugMode(f) == f.environ.LFN_DEBUG = "1"

\* a configuration that never sets the level of the logger
SetLevel_Skip(lg, f) == lg

\* a configuration that sets the level of a logger only when the call
\* passes one or the logger has none yet
SetLevel_KeepResolved(lg, f) ==
    IF f.log_level = None /\ lg.level # NOTSET THEN lg
    ELSE [lg EXCEPT !.level = LogLevel(f)]

\* logger.setLevel(log_level), lines 89-94
SetLevel(lg, f) == [lg EXCEPT !.level = LogLevel(f)]

\* a reconfiguration that keeps the handlers of the configuration before it
ClearHandlers_Keep(lg) == lg

\* logger.handlers = [], line 97
ClearHandlers(lg) == [lg EXCEPT !.handlers = <<>>]

\* logger.addHandler(h)
AddHandler(lg, h) == [lg EXCEPT !.handlers = Append(@, h)]

\* a debug mode that lowers the handlers and leaves the logger's level
DebugOverride_HandlersOnly(lg) ==
    [lg EXCEPT !.handlers = [i \in DOMAIN @ |-> [@[i] EXCEPT !.level = DEBUG]]]

\* lines 176-179
DebugOverride(lg) ==
    [ level |-> DEBUG,
      handlers |-> [i \in DOMAIN lg.handlers |-> [lg.handlers[i] EXCEPT !.level = DEBUG]] ]

\* the logger after the statement at position pc
StepLogger(pc, lg, f) ==
    CASE pc = "setLevel" -> SetLevel(lg, f)
      [] pc = "clear" -> ClearHandlers(lg)
      [] pc = "console" -> IF f.log_to_console THEN AddHandler(lg, ConsoleHandler(f)) ELSE lg
      [] pc = "file" ->
            IF FileEnabled(f) /\ f.fs # "open_fails"
            THEN AddHandler(lg, FileHandler(f)) ELSE lg
      [] pc = "error" ->
            IF f.fs # "error_open_fails" THEN AddHandler(lg, ErrorHandler(f)) ELSE lg
      [] pc = "debug" -> IF DebugMode(f) THEN DebugOverride(lg) ELSE lg
      [] OTHER -> lg

\* the position after the statement at pc: the next statement, "returned",
\* or "raised" when the statement raises OSError out of the call
NextPc(pc, f) ==
    CASE pc = "setLevel" -> "clear"
      [] pc = "clear" -> "mkdir"
      [] pc = "mkdir" -> IF f.fs = "mkdir_fails" THEN "raised" ELSE "console"
      [] pc = "console" -> "file"
      [] pc = "file" ->
            IF ~FileEnabled(f) THEN "debug"
            ELSE IF f.fs = "open_fails" THEN "raised" ELSE "error"
      [] pc = "error" -> IF f.fs = "error_open_fails" THEN "raised" ELSE "debug"
      [] pc = "debug" -> "returned"

FileStreams(lg) ==
    Cardinality({ i \in DOMAIN lg.handlers : lg.handlers[i].class = "RotatingFileHandler" })

\* the file streams open on behalf of the logger after the statement at pc.
\* Dropping the handler list closes nothing; whether the runtime finalizes
\* the unreferenced streams at once is its choice (f.reclaim).
StepStreams(pc, lg, open, f) ==
    CASE pc = "clear" -> IF f.reclaim THEN open - FileStreams(lg) ELSE open
      [] pc = "file" -> IF FileEnabled(f) /\ f.fs # "open_fails" THEN open + 1 ELSE open
      [] pc = "error" -> IF f.fs # "error_open_fails" THEN open + 1 ELSE open
      [] OTHER -> open

Finished(pc) == pc \in {"returned", "raised"}

\* the whole call, from position pc on
RECURSIVE RunFrom(_, _, _, _)
RunFrom(pc, lg, open, f) ==
    IF Finished(pc)
    THEN [logger |-> lg, open |-> open, outcome |-> pc]
    ELSE RunFrom(NextPc(pc, f), StepLogger(pc, lg, f), StepStreams(pc, lg, open, f), f)

setup_logging(lg, open, f) == RunFrom("setLevel", lg, open, f)

(***************************************************************************)
(* Emitting a record: Logger.log, Logger.getEffectiveLevel and             *)
(* Logger.callHandlers of the logging library, over the loggers and        *)
(* handlers setup_logging configured.                                      *)
(***************************************************************************)
\* level of the root logger, which no code of the toolkit configures
ROOT_LEVEL == WARNING

IsAncestor(m, n) ==
    /\ Len(m) < Len(n)
    /\ SubSeq(n, 1, Len(m)) = m
    /\ n[Len(m) + 1] = "."

\* ColoredFormatter.format: rewrites record.levelname in place
ColoredLevelname(levelname, colored_terminal) ==
    IF colored_terminal /\ Len(levelname) = 1 /\ levelname[1] \in DOMAIN COLORS
    THEN <<COLORS[levelname[1]], levelname[1], COLORS["RESET"]>>
    ELSE levelname

\* the record as handler h leaves it for the handlers after it
FormatRecord(h, record, colored_terminal) ==
    IF h.formatter = "ColoredFormatter"
    THEN [record EXCEPT !.levelname = ColoredLevelname(@, colored_terminal)]
    ELSE record

\* the line the handler of entry e (a handler and the logger owning it)
\* writes for the record
Line(e, record, colored_terminal) ==
    [ owner |-> e.owner, var |-> e.handler.var,
      baseFilename |-> e.handler.baseFilename, levelno |-> record.levelno,
      levelname |-> FormatRecord(e.handler, record, colored_terminal).levelname ]

\* the lines the handlers of the entries es write, in order, each handler
\* seeing the record as the handlers before it left it
RECURSIVE CallHandlers(_, _, _)
CallHandlers(es, record, colored_terminal) ==
    IF es = <<>> THEN <<>>
    ELSE IF record.levelno >= Head(es).handler.level
         THEN <<Line(Head(es), record, colored_terminal)>>
              \o CallHandlers(Tail(es),
                              FormatRecord(Head(es).handler, record, colored_terminal),
                              colored_terminal)
         ELSE CallHandlers(Tail(es), record, colored_terminal)

\* the nearest ancestor of n among the loggers regs, <<>> for the root
Parent(n, regs) ==
    LET ancestors == { m \in DOMAIN regs : IsAncestor(m, n) }
    IN  IF ancestors = {} THEN <<>>
        ELSE CHOOSE m \in ancestors : \A o \in ancestors : Len(o) <= Len(m)

\* the handlers a record logged through n reaches: its own, then those of
\* its ancestors, nearest first (propagate is left True; the root has none)
RECURSIVE HandlerChain(_, _)
HandlerChain(n, regs) ==
    IF n = <<>> THEN <<>>
    ELSE [i \in DOMAIN regs[n].handlers |-> [owner |-> n, handler |-> regs[n].handlers[i]]]
         \o HandlerChain(Parent(n, regs), regs)

\* Logger.getEffectiveLevel
RECURSIVE EffectiveLevel(_, _)
EffectiveLevel(n, regs) ==
    IF n = <<>> THEN ROOT_LEVEL
    ELSE IF regs[n].level # NOTSET THEN regs[n].level
         ELSE EffectiveLevel(Parent(n, regs), regs)

\* the lines written for a record logged through n; when no logger of the
\* chain has a handler, the library's last-resort handler writes WARNING
\* and above to stderr
Deliver(n, regs, record, colored_terminal) ==
    IF record.levelno < EffectiveLevel(n, regs) THEN <<>>
    ELSE IF HandlerChain(n, regs) # <<>>
         THEN CallHandlers(HandlerChain(n, regs), record, colored_terminal)
         ELSE IF record.levelno >= WARNING
              THEN << [ owner |-> <<>>, var |-> "lastResort", baseFilename |-> <<>>,
                        levelno |-> record.levelno, levelname |-> record.levelname ] >>
              ELSE <<>>

VARIABLES
    environ,    \* os.environ of the process
    loggers,    \* the registry of logging.getLogger: module name -> logger
    streams,    \* module name -> file streams open on its behalf
    call,       \* <<>> or <<the get_logger call that just ended, with the
                \*            level its logger had before>>
    emitted,    \* <<>> or <<the record just logged, with the lines written>>
    pc,         \* thread -> "idle" or its position in setup_logging
    frame,      \* thread -> <<>> or <<the frame of its get_logger call>>
    calls,      \* thread -> get_logger calls it has finished
    traced,     \* <<>> or <<the call through a log_function_call wrapper
                \*            that just ended>>
    rotating,   \* <<>> or <<a RotatingFileHandler and the files it keeps>>
    logged,     \* <<>> or <<the log_exception call that just ended>>
    now,        \* datetime.now() of the process
    created,    \* the paths create_session_log has made on the file system
    sessions    \* the create_session_log calls that have ended, in order

\* the state of the helpers beside get_logger
utilities == <<rotating, logged, now, created, sessions>>

\* the state get_logger and the loggers it configures work on
configuration == <<environ, loggers, streams, call, emitted, pc, frame, calls>>

vars == <<environ, loggers, streams, call, emitted, pc, frame, calls, traced,
          rotating, logged, now, created, sessions>>

Threads == {"t1", "t2"}

\* logging.getLogger(module_name): the registered logger, or a new one
getLogger(module_name) ==
    IF module_name \in DOMAIN loggers THEN loggers[module_name] ELSE NewLogger

\* the registry once module_name maps to lg
Registered(module_name, lg) ==
    [n \in DOMAIN loggers \cup {module_name} |->
        IF n = module_name THEN lg ELSE loggers[n]]

\* the process environments a specification starts from
InitWith(environments) ==
    /\ environ \in environments
    /\ loggers = <<>>
    /\ streams = [n \in ModuleNames |-> 0]
    /\ call = <<>>
    /\ emitted = <<>>
    /\ pc = [t \in Threads |-> "idle"]
    /\ frame = [t \in Threads |-> <<>>]
    /\ calls = [t \in Threads |-> 0]
    /\ traced = <<>>
    /\ rotating = <<>>
    /\ logged = <<>>
    /\ now = [second |-> 0, microsecond |-> 0]
    /\ created = {}
    /\ sessions = <<>>

\* what the file system can do to a call with these arguments: a log file
\* is opened only when file logging is on
FsChoices(module_name, log_to_file, fsSet) ==
    IF Truthy(KwargsLogToFile(module_name, log_to_file, environ))
    THEN fsSet
    ELSE fsSet \ {"open_fails", "error_open_fails"}

\* what the runtime can do with the streams of the handlers a call drops:
\* finalize them at once or leave them open; with no stream to drop the
\* choice changes nothing
ReclaimChoices(module_name, reclaimSet) ==
    IF FileStreams(getLogger(module_name)) > 0 THEN reclaimSet ELSE {TRUE}

\* get_logger(module_name, log_to_file=..., log_to_console=..., log_level=...)
\* and the setup_logging it ends in
Configure(module_name, log_to_file, log_to_console, log_level, fs, reclaim) ==
    /\ \E f \in { [ module_name |-> module_name, log_to_file |-> log_to_file,
                     log_to_console |-> log_to_console, log_level |-> log_level,
                     environ |-> environ, fs |-> fs, reclaim |-> reclaim ] } :
         \E r \in { setup_logging(getLogger(module_name), streams[module_name], f) } :
            /\ r.open <= MaxOpen
            /\ loggers' = Registered(module_name, r.logger)
            /\ streams' = [streams EXCEPT ![module_name] = r.open]
            /\ call' = << [ f |-> f, outcome |-> r.outcome,
                            before |-> getLogger(module_name).level ] >>
            /\ emitted' = <<>>
            /\ UNCHANGED <<environ, pc, frame, calls, traced, utilities>>

\* get_logger for one of the module names the process configures
GetLogger(module_name, log_to_file, log_to_console, log_level, fs, reclaim) ==
    /\ Cardinality(DOMAIN loggers \cup {module_name}) <= MaxLoggers
    /\ Configure(module_name, log_to_file, log_to_console, log_level, fs, reclaim)

\* logger.log(levelno, msg) through the logger of module_name
Emit(module_name, levelno, colored_terminal) ==
    /\ module_name \in DOMAIN loggers
    /\ emitted' =
          << [ name |-> module_name, levelno |-> levelno,
               colored_terminal |-> colored_terminal,
               lines |-> Deliver(module_name, loggers,
                                 [levelno |-> levelno, levelname |-> <<LevelName(levelno)>>],
                                 colored_terminal) ] >>
    /\ call' = <<>>
    /\ UNCHANGED <<environ, loggers, streams, pc, frame, calls, traced, utilities>>

Calls(fileArgs, levelArgs, fsSet, reclaimSet) ==
    \E module_name \in ModuleNames, log_to_file \in fileArgs,
       log_to_console \in BOOLEAN, log_level \in levelArgs :
        \E fs \in FsChoices(module_name, log_to_file, fsSet),
           reclaim \in ReclaimChoices(module_name, reclaimSet) :
            GetLogger(module_name, log_to_file, log_to_console, log_level, fs, reclaim)

Emits ==
    \E module_name \in ModuleNames, levelno \in Severities,
       colored_terminal \in BOOLEAN :
        Emit(module_name, levelno, colored_terminal)

(***************************************************************************)
(* Spec: the sinks and streams of a logger under every file option, every  *)
(* file-system outcome and either fate of dropped streams, the level left  *)
(* to an environment that names none.                                      *)
(***************************************************************************)
SinkEnvironments ==
    [ LFN_LOG_LEVEL : {""}, LFN_DEBUG : {""}, LFN_LOG_FILE : EnvLogFiles ]

SinkLevelArgs == {None}

Init == InitWith(SinkEnvironments)

Next == Calls(FileArgs, SinkLevelArgs, FsOutcomes, BOOLEAN)

Spec == Init /\ [][Next]_vars

(***************************************************************************)
(* SpecLevels: the threshold of a logger, and the delivery of records      *)
(* through it, under every level argument and every level environment, on  *)
(* a file system that works and a runtime that finalizes dropped streams.  *)
(* File logging follows the module name.                                   *)
(***************************************************************************)
LevelEnvironments ==
    [ LFN_LOG_LEVEL : EnvLevels, LFN_DEBUG : EnvDebugs, LFN_LOG_FILE : {<<>>} ]

LevelFileArgs == { Absent }

InitLevels == InitWith(LevelEnvironments)

NextLevels ==
    \/ Calls(LevelFileArgs, LevelArgs, {"ok"}, {TRUE})
    \/ Emits

SpecLevels == InitLevels /\ [][NextLevels]_vars

(***************************************************************************)
(* SpecThreads: threads calling get_logger at the same time.  The module   *)
(* takes no lock, so the statements of setup_logging of different threads  *)
(* interleave; each statement is one step.                                 *)
(***************************************************************************)
ThreadEnvironments ==
    [ LFN_LOG_LEVEL : {""}, LFN_DEBUG : EnvDebugs, LFN_LOG_FILE : {<<>>} ]

ThreadModuleNames == { <<"pkg", ".", "batch">> }

ThreadFileArgs == { Absent, PyBool(FALSE) }

\* a thread enters get_logger
Begin(t, module_name, log_to_file, log_to_console) ==
    /\ pc[t] = "idle"
    /\ calls[t] < MaxThreadCalls
    /\ pc' = [pc EXCEPT ![t] = "setLevel"]
    /\ frame' = [frame EXCEPT ![t] =
          << [ module_name |-> module_name, log_to_file |-> log_to_file,
               log_to_console |-> log_to_console, log_level |-> None,
               environ |-> environ, fs |-> "ok", reclaim |-> TRUE ] >>]
    /\ UNCHANGED <<environ, loggers, streams, call, emitted, calls, traced, utilities>>

\* a thread runs the statement it is at
Step(t) ==
    /\ pc[t] # "idle"
    /\ \E f \in { frame[t][1] } :
        \E lg \in { getLogger(f.module_name) } :
            /\ loggers' = Registered(f.module_name, StepLogger(pc[t], lg, f))
            /\ streams' = [streams EXCEPT ![f.module_name] = StepStreams(pc[t], lg, @, f)]
            /\ IF Finished(NextPc(pc[t], f))
               THEN /\ pc' = [pc EXCEPT ![t] = "idle"]
                    /\ frame' = [frame EXCEPT ![t] = <<>>]
                    /\ calls' = [calls EXCEPT ![t] = @ + 1]
                    /\ call' = << [f |-> f, outcome |-> NextPc(pc[t], f)] >>
               ELSE /\ pc' = [pc EXCEPT ![t] = NextPc(pc[t], f)]
                    /\ UNCHANGED <<frame, calls, call>>
    /\ UNCHANGED <<environ, emitted, traced, utilities>>

InitThreads == InitWith(ThreadEnvironments)

NextThreads ==
    \/ \E t \in Threads, module_name \in ThreadModuleNames,
          log_to_file \in ThreadFileArgs, log_to_console \in BOOLEAN :
            Begin(t, module_name, log_to_file, log_to_console)
    \/ \E t \in Threads : Step(t)

SpecThreads == InitThreads /\ [][NextThreads]_vars

(***************************************************************************)
(* SpecTrace: calls through the wrapper log_function_call builds.          *)
(***************************************************************************)
\* an object is "plain" or "other" when repr() of it returns, and
\* "unreprable" when its __repr__ raises ReprError
Objects == { "plain", "other", "unreprable" }

\* exceptions the wrapped function may raise; all but KeyboardInterrupt
\* derive from Exception
Exceptions == { "ValueError", "KeyError", "KeyboardInterrupt" }

IsException(exc) == exc # "KeyboardInterrupt"

\* what the wrapped function does when called: return an object or raise
Funcs ==
    [ kind : {"returns"}, value : Objects, exc : {"none"} ]
    \cup [ kind : {"raises"}, value : {"none"}, exc : Exceptions ]

ArgLists == UNION { [1..k -> Objects] : k \in 0..MaxArgs }

ReprRaises(objects) == \E i \in DOMAIN objects : objects[i] = "unreprable"

\* logger.exception(f"{func.__name__} raised {type(e).__name__}: {e}")
LogRaised(exc) == [levelno |-> ERROR, msg |-> "raised", exc |-> exc]

\* wrapper(*args), lines 276-289: what the caller gets, the records handed
\* to the logger, and whether func was called
wrapper(func, args, level) ==
    IF ReprRaises(args)
    THEN \* line 277 raises before anything is logged or called
         [ outcome |-> [kind |-> "raised", value |-> "ReprError"],
           logged |-> <<>>, invoked |-> FALSE ]
    ELSE LET calling == << [levelno |-> level, msg |-> "Calling", exc |-> "none"] >>
         IN  IF func.kind = "returns"
             THEN IF ReprRaises(<<func.value>>)
                  THEN \* line 285 raises inside the try block
                       [ outcome |-> [kind |-> "raised", value |-> "ReprError"],
                         logged |-> Append(calling, LogRaised("ReprError")),
                         invoked |-> TRUE ]
                  ELSE [ outcome |-> [kind |-> "returned", value |-> func.value],
                         logged |-> Append(calling,
                             [levelno |-> level, msg |-> "returned", exc |-> "none"]),
                         invoked |-> TRUE ]
             ELSE IF IsException(func.exc)
                  THEN [ outcome |-> [kind |-> "raised", value |-> func.exc],
                         logged |-> Append(calling, LogRaised(func.exc)),
                         invoked |-> TRUE ]
                  ELSE \* not caught by "except Exception"
                       [ outcome |-> [kind |-> "raised", value |-> func.exc],
                         logged |-> calling, invoked |-> TRUE ]

\* a call of a function decorated with log_function_call(logger, level)
CallWrapped(func, args, level) ==
    /\ traced' = << [func |-> func, args |-> args, level |-> level,
                     result |-> wrapper(func, args, level)] >>
    /\ UNCHANGED <<configuration, utilities>>

InitTrace == InitWith(ThreadEnvironments)

NextTrace ==
    \E func \in Funcs, args \in ArgLists, level \in Severities :
        CallWrapped(func, args, level)

SpecTrace == InitTrace /\ [][NextTrace]_vars

(***************************************************************************)
(* SpecRotate: records written through one RotatingFileHandler.  The       *)
(* handler is built with maxBytes and backupCount; emit() asks             *)
(* shouldRollover() before each write and runs doRollover() when it says   *)
(* so.  Sizes are in bytes.                                                *)
(***************************************************************************)
\* an environment that sets none of the three variables
PlainEnvironments ==
    [ LFN_LOG_LEVEL : {""}, LFN_DEBUG : {""}, LFN_LOG_FILE : {<<>>} ]

MAX_LOG_SIZE == 10 * 1024 * 1024

BACKUP_COUNT == 5

\* maxBytes and backupCount a handler is built with: those of setup_logging,
\* and those of the rotation scenario (1 KB, 2 backups)
RotateConfigs ==
    { [maxBytes |-> MAX_LOG_SIZE, backupCount |-> BACKUP_COUNT],
      [maxBytes |-> 1024, backupCount |-> 2] }

\* the lengths of the formatted records written through a handler: a
\* quarter and a half of maxBytes
RecordLens(h) == { h.maxBytes \div 4, h.maxBytes \div 2 }

\* RotatingFileHandler(path, maxBytes=..., backupCount=...): the active file
\* is opened, empty, at construction.  pos is the size of the active file,
\* gen counts the active files before it, backups[i] is the file "<path>.i"
RotatingFileHandler(cfg) ==
    [ maxBytes |-> cfg.maxBytes, backupCount |-> cfg.backupCount,
      pos |-> 0, gen |-> 0, backups |-> <<>>,
      writes |-> 0, written |-> 0, last |-> <<>> ]

shouldRollover(h, len) == h.maxBytes > 0 /\ h.pos + len >= h.maxBytes

\* "<path>.i" becomes "<path>.(i+1)" with nothing discarded
doRollover_KeepAll(h) ==
    [h EXCEPT !.backups = << [gen |-> h.gen, size |-> h.pos] >> \o @,
              !.pos = 0, !.gen = @ + 1]

\* "<path>.i" becomes "<path>.(i+1)" for i < backupCount, "<path>" becomes
\* "<path>.1", and a new active file is opened
doRollover(h) ==
    [h EXCEPT !.backups =
                  SubSeq(<< [gen |-> h.gen, size |-> h.pos] >> \o @, 1,
                         IF Len(@) + 1 <= h.backupCount
                         THEN Len(@) + 1 ELSE h.backupCount),
              !.pos = 0, !.gen = @ + 1]

\* emit(record) with a formatted record of len bytes; last keeps what the
\* write found
emit(h, len) ==
    LET r == IF shouldRollover(h, len) THEN doRollover(h) ELSE h
    IN  [r EXCEPT !.pos = @ + len, !.writes = @ + 1, !.written = @ + len,
                  !.last = << [ len |-> len, pos |-> h.pos, gen |-> h.gen,
                                backups |-> h.backups ] >>]

Attach(cfg) ==
    /\ rotating = <<>>
    /\ rotating' = << RotatingFileHandler(cfg) >>
    /\ UNCHANGED <<configuration, traced, logged, now, created, sessions>>

Write(len) ==
    /\ rotating # <<>>
    /\ rotating[1].writes < MaxWrites
    /\ len \in RecordLens(rotating[1])
    /\ rotating' = << emit(rotating[1], len) >>
    /\ UNCHANGED <<configuration, traced, logged, now, created, sessions>>

InitRotate == InitWith(PlainEnvironments)

NextRotate ==
    \/ \E cfg \in RotateConfigs : Attach(cfg)
    \/ \E len \in { c.maxBytes \div d : c \in RotateConfigs, d \in {2, 4} } : Write(len)

SpecRotate == InitRotate /\ [][NextRotate]_vars

(***************************************************************************)
(* SpecFailure: log_exception through a logger get_logger configured with  *)
(* one console sink and an explicit level.                                 *)
(***************************************************************************)
ExceptionKinds == { "ValueError", "OSError" }

ExceptionTexts == { "bad value" }

\* exception.__traceback__ as its frames, outermost first: TRUE for a frame
\* whose source line can be read, FALSE for one whose source cannot
Tracebacks == UNION { [1..k -> BOOLEAN] : k \in 0..MaxFrames }

Failures == [ kind : ExceptionKinds, text : ExceptionTexts, traceback : Tracebacks ]

\* the message argument: its default and one a caller passes
Messages == { "Exception occurred", "while loading" }

\* traceback.format_tb(tb): one entry per frame, each ending in a newline,
\* with the source line after an inner newline when it can be read
format_tb(tb) ==
    [ i \in DOMAIN tb |->
        IF tb[i] THEN << "  File ..., line ..., in ...", "\n", "    source", "\n" >>
                 ELSE << "  File ..., line ..., in ...", "\n" >> ]

\* str.rstrip() of a text given as pieces: trailing newlines removed
RECURSIVE rstrip(_)
rstrip(text) ==
    IF text # <<>> /\ text[Len(text)] = "\n"
    THEN rstrip(SubSeq(text, 1, Len(text) - 1))
    ELSE text

\* the text lines a message prints as
TextLines(msg) == 1 + Cardinality({ i \in DOMAIN msg : msg[i] = "\n" })

\* log_exception without the logger.debug("Full traceback:") of line 257
log_exception_NoHeader(exception, message) ==
    << [ levelno |-> ERROR,
         msg |-> << message, ": ", exception.kind, ": ", exception.text >> ] >>
    \o [ i \in DOMAIN exception.traceback |->
           [ levelno |-> DEBUG, msg |-> rstrip(format_tb(exception.traceback)[i]) ] ]

\* log_exception(logger, exception, message): the records handed to the
\* logger, in order
log_exception(exception, message) ==
    << [ levelno |-> ERROR,
         msg |-> << message, ": ", exception.kind, ": ", exception.text >> ] >>
    \o << [ levelno |-> DEBUG, msg |-> << "Full traceback:" >> ] >>
    \o [ i \in DOMAIN exception.traceback |->
           [ levelno |-> DEBUG, msg |-> rstrip(format_tb(exception.traceback)[i]) ] ]

\* the logger get_logger("pkg", log_to_file=False, log_level=level) returns
\* in an environment that sets nothing
ConsoleLogger(level) ==
    setup_logging(NewLogger, 0,
        [ module_name |-> <<"pkg">>, log_to_file |-> PyBool(FALSE),
          log_to_console |-> TRUE, log_level |-> level,
          environ |-> [LFN_LOG_LEVEL |-> "", LFN_DEBUG |-> "", LFN_LOG_FILE |-> <<>>],
          fs |-> "ok", reclaim |-> TRUE ]).logger

\* what the sinks of lg print for the records from the k-th on: one entry
\* per text line, naming the record it belongs to
RECURSIVE Printed(_, _, _)
Printed(lg, records, k) ==
    IF k > Len(records) THEN <<>>
    ELSE LET lines == Deliver(<<"pkg">>, [n \in {<<"pkg">>} |-> lg],
                              [ levelno |-> records[k].levelno,
                                levelname |-> <<LevelName(records[k].levelno)>> ],
                              FALSE)
         IN  [ j \in 1..(Len(lines) * TextLines(records[k].msg)) |->
                 [levelno |-> records[k].levelno, record |-> k] ]
             \o Printed(lg, records, k + 1)

LogException(exception, message, level) ==
    /\ logged' = << [ exception |-> exception, message |-> message,
                      level |-> ConsoleLogger(level).level,
                      records |-> log_exception(exception, message),
                      printed |-> Printed(ConsoleLogger(level),
                                          log_exception(exception, message), 1) ] >>
    /\ UNCHANGED <<configuration, traced, rotating, now, created, sessions>>

InitFailure == InitWith(PlainEnvironments)

NextFailure ==
    \E exception \in Failures, message \in Messages, level \in Severities :
        LogException(exception, message, level)

SpecFailure == InitFailure /\ [][NextFailure]_vars

(***************************************************************************)
(* SpecSession: create_session_log called as the clock advances.  Paths    *)
(* are sequences of tokens.                                                *)
(***************************************************************************)
DEFAULT_LOG_DIR == <<"logs">>

\* the session_name argument
SessionNames == { <<"batch_analysis">>, <<"batch_analysis", "_", "night">> }

\* the log_dir argument: <<>> for None, or a directory
SessionDirs == { <<>>, <<"out">> }

\* a timestamp that keeps the microseconds
strftime_Micro(t) == << ToString(t.second), ".", ToString(t.microsecond) >>

\* datetime.strftime('%Y%m%d_%H%M%S'): the time to the second
strftime(t) == << ToString(t.second) >>

\* the directory the log goes to, lines 306-310
SessionDir(log_dir) ==
    IF log_dir = <<>> THEN <<"toolkit", "/">> \o DEFAULT_LOG_DIR ELSE log_dir

\* lines 314-316
SessionPath(session_name, log_dir, t) ==
    SessionDir(log_dir) \o <<"/">> \o session_name \o <<"_">> \o strftime(t) \o <<".log">>

\* create_session_log(session_name, log_dir) at time now; mkdir either
\* makes sure the directory exists or raises
CreateSessionLog(session_name, log_dir, fs) ==
    /\ Len(sessions) < MaxSessions
    /\ IF fs = "mkdir_fails"
       THEN /\ sessions' = Append(sessions,
                  [ session_name |-> session_name, log_dir |-> log_dir, at |-> now,
                    outcome |-> "raised", path |-> <<>> ])
            /\ UNCHANGED created
       ELSE /\ sessions' = Append(sessions,
                  [ session_name |-> session_name, log_dir |-> log_dir, at |-> now,
                    outcome |-> "returned",
                    path |-> SessionPath(session_name, log_dir, now) ])
            /\ created' = created \cup { SessionDir(log_dir) }
    /\ UNCHANGED <<configuration, traced, rotating, logged, now>>

\* the clock moves on: to the next instant of the second, or the next second
Tick ==
    /\ now.microsecond < 1 \/ now.second < MaxSeconds
    /\ now' = IF now.microsecond < 1
              THEN [now EXCEPT !.microsecond = @ + 1]
              ELSE [second |-> now.second + 1, microsecond |-> 0]
    /\ UNCHANGED <<configuration, traced, rotating, logged, created, sessions>>

InitSession == InitWith(PlainEnvironments)

NextSession ==
    \/ \E session_name \in SessionNames, log_dir \in SessionDirs,
          fs \in {"ok", "mkdir_fails"} :
            CreateSessionLog(session_name, log_dir, fs)
    \/ Tick

SpecSession == InitSession /\ [][NextSession]_vars

(***************************************************************************)
(* SpecTree: a package and a module of it both configured, "pkg" and       *)
(* "pkg.batch", and records logged through either.  File logging follows   *)
(* the module name; the file system works.                                 *)
(***************************************************************************)
TreeLevelArgs == { None, ERROR }

ConfigureTree ==
    \E module_name \in ModuleNames, log_to_console \in BOOLEAN,
       log_level \in TreeLevelArgs :
        Configure(module_name, Absent, log_to_console, log_level, "ok", TRUE)

InitTree == InitWith(PlainEnvironments)

NextTree ==
    \/ ConfigureTree
    \/ Emits

SpecTree == InitTree /\ [][NextTree]_vars

(***************************************************************************)
(* Properties of the sinks of a logger (Spec).                             *)
(***************************************************************************)
HandlerVars(lg) == [i \in DOMAIN lg.handlers |-> lg.handlers[i].var]

ConsoleSinks(lg) ==
    Cardinality({ i \in DOMAIN lg.handlers : lg.handlers[i].class = "StreamHandler" })

\* the sinks the options of a call specify, in the order of attachment
ExpectedSinks(f) ==
    (IF f.log_to_console THEN <<"console_handler">> ELSE <<>>)
    \o (IF FileEnabled(f) THEN <<"file_handler", "error_handler">> ELSE <<>>)

Returned == call # <<>> /\ call[1].outcome = "returned"

\* C1: after every get_logger call that yields a handle, the sinks of the
\* handle are exactly those the call's options specify (one console sink
\* iff log_to_console, the general and the errors-only file sink iff file
\* logging is on), none left from an earlier call; and at every point a
\* handle has at most one console sink and at most two file sinks.
C1_SinksMatchLastCall ==
    /\ \A n \in DOMAIN loggers :
          ConsoleSinks(loggers[n]) <= 1 /\ FileStreams(loggers[n]) <= 2
    /\ Returned =>
          HandlerVars(loggers[call[1].f.module_name]) = ExpectedSinks(call[1].f)

\* a call asking for no sink at all returned on a name whose earlier
\* configuration had opened both log files
C1_Witness ==
    /\ Returned
    /\ ~call[1].f.log_to_console /\ ~FileEnabled(call[1].f)
    /\ streams[call[1].f.module_name] = 2
    /\ loggers[call[1].f.module_name].handlers = <<>>

\* C7: get_logger never fails because the log directory or a log file is
\* unusable: it returns a logger, which then has the console sink only.
C7_SetupNeverFails ==
    call # <<>> =>
        /\ call[1].outcome = "returned"
        /\ call[1].f.fs # "ok" =>
              \A i \in DOMAIN loggers[call[1].f.module_name].handlers :
                  loggers[call[1].f.module_name].handlers[i].class = "StreamHandler"

\* C10: after a reconfiguration, the file streams open on behalf of a
\* module name do not outnumber the file sinks attached to its logger
\* (reconfiguring closes the streams of the sinks it discards).
C10_NoStreamLeak ==
    (call = <<>> \/ Returned) =>
        \A n \in ModuleNames : streams[n] <= FileStreams(getLogger(n))

(***************************************************************************)
(* Properties of thresholds and of delivery (SpecLevels).                  *)
(***************************************************************************)
\* the sink of handler h of logger n wrote a line for the record e
Wrote(e, n, h) ==
    \E k \in DOMAIN e.lines : e.lines[k].owner = n /\ e.lines[k].var = h.var

\* C2: a line written by a file sink holds the plain severity label and no
\* color-escape sequence, also when a colored console sink renders the
\* same record.
C2_FileLinesPlain ==
    emitted # <<>> =>
        \A k \in DOMAIN emitted[1].lines :
            emitted[1].lines[k].baseFilename # <<>> =>
                /\ emitted[1].lines[k].levelname = <<LevelName(emitted[1].levelno)>>
                /\ \A i \in DOMAIN emitted[1].lines[k].levelname :
                      emitted[1].lines[k].levelname[i] \notin EscapeCodes

\* C3: the errors-only file sink writes only records of severity ERROR or
\* CRITICAL, whatever the threshold of the logger was resolved to.
C3_ErrorsOnlySink ==
    emitted # <<>> =>
        \A k \in DOMAIN emitted[1].lines :
            emitted[1].lines[k].var = "error_handler" => emitted[1].levelno >= ERROR

\* C4: a get_logger call made while the debug override is asserted leaves
\* the logger's threshold at DEBUG, for every explicit level (or none) and
\* every value of the level environment variable.
C4_DebugOverrideForcesDebug ==
    (Returned /\ call[1].f.environ.LFN_DEBUG = "1") =>
        loggers[call[1].f.module_name].level = DEBUG

\* the override met an explicit CRITICAL and an environment level of error
C4_Witness ==
    /\ Returned
    /\ call[1].f.environ.LFN_DEBUG = "1"
    /\ call[1].f.log_level = CRITICAL
    /\ call[1].f.environ.LFN_LOG_LEVEL = "error"
    /\ loggers[call[1].f.module_name].level = DEBUG

\* the severity an environment value names, whatever its case; INFO when
\* it names none
NamedSeverity(value) ==
    IF value \in {"debug", "Debug", "DEBUG"} THEN DEBUG
    ELSE IF value \in {"warning", "Warning", "WARNING"} THEN WARNING
    ELSE IF value \in {"error", "Error", "ERROR"} THEN ERROR
    ELSE IF value \in {"critical", "Critical", "CRITICAL"} THEN CRITICAL
    ELSE INFO

\* C5: without the debug override the threshold is the explicit level when
\* one is given, else the severity the level environment variable names in
\* any case, else (also for a value naming no severity) INFO, and the call
\* raises nothing.
C5_LevelPrecedence ==
    (call # <<>> /\ call[1].f.environ.LFN_DEBUG # "1") =>
        /\ call[1].outcome = "returned"
        /\ loggers[call[1].f.module_name].level =
              IF call[1].f.log_level # None
              THEN call[1].f.log_level
              ELSE NamedSeverity(call[1].f.environ.LFN_LOG_LEVEL)

\* no explicit level, a lower-case environment value: the threshold is ERROR
C5_Witness ==
    /\ Returned
    /\ call[1].f.environ.LFN_DEBUG # "1"
    /\ call[1].f.log_level = None
    /\ call[1].f.environ.LFN_LOG_LEVEL = "error"
    /\ loggers[call[1].f.module_name].level = ERROR

\* C6: a sink of the logger a record is logged through writes the record
\* iff the record's severity is at least the sink's minimum severity and at
\* least the logger's threshold.
C6_EmitIff ==
    emitted # <<>> =>
        \A i \in DOMAIN loggers[emitted[1].name].handlers :
            Wrote(emitted[1], emitted[1].name, loggers[emitted[1].name].handlers[i])
            <=> /\ emitted[1].levelno >= loggers[emitted[1].name].handlers[i].level
                /\ emitted[1].levelno >= loggers[emitted[1].name].level

\* a WARNING record through an INFO logger: the general file sink wrote it,
\* the errors-only sink did not
C6_Witness ==
    /\ emitted # <<>>
    /\ emitted[1].levelno = WARNING
    /\ loggers[emitted[1].name].level = INFO
    /\ HandlerVars(loggers[emitted[1].name]) =
          <<"console_handler", "file_handler", "error_handler">>
    /\ \E k \in DOMAIN emitted[1].lines : emitted[1].lines[k].var = "file_handler"
    /\ \A k \in DOMAIN emitted[1].lines : emitted[1].lines[k].var # "error_handler"

(***************************************************************************)
(* Properties of concurrent configuration (SpecThreads).                   *)
(***************************************************************************)
\* C8: whatever the interleaving of concurrent get_logger calls on one
\* module name, its logger has at most one console sink and at most two
\* file sinks.
C8_ThreadsNoDuplicateSinks ==
    \A n \in DOMAIN loggers :
        ConsoleSinks(loggers[n]) <= 1 /\ FileStreams(loggers[n]) <= 2

(***************************************************************************)
(* Properties of the call-trace wrapper (SpecTrace).                       *)
(***************************************************************************)
\* C9: the wrapped function has the outcome of the function: the value it
\* returns is returned, the failure it raises is raised again after a
\* record of it at ERROR severity; no failure is swallowed and no
\* successful call becomes a failure.
C9_WrapperTransparent ==
    traced # <<>> =>
        /\ traced[1].func.kind = "returns" =>
              traced[1].result.outcome =
                  [kind |-> "returned", value |-> traced[1].func.value]
        /\ traced[1].func.kind = "raises" =>
              /\ traced[1].result.outcome =
                    [kind |-> "raised", value |-> traced[1].func.exc]
              /\ \E k \in DOMAIN traced[1].result.logged :
                    /\ traced[1].result.logged[k].levelno = ERROR
                    /\ traced[1].result.logged[k].exc = traced[1].func.exc

(***************************************************************************)
(* Properties of a rotating file sink (SpecRotate).                        *)
(***************************************************************************)
\* C11: a rotating file sink with maximum size M and backup count B has one
\* active file and at most B archived generations, which are the newest
\* ones in order; a write that would take the active file past M first
\* archives it and starts a fresh active file holding that record alone,
\* discarding the oldest generation when B exist already; a write that
\* leaves the active file below M appends to it and archives nothing; no
\* file reaches M; and once (B+1)*M bytes are written there are exactly B+1
\* files (M = 1 KB, B = 2, 5 KB written: 3 files).
C11_RotationKeepsGenerations ==
    rotating # <<>> =>
        LET h == rotating[1]
            M == h.maxBytes
            B == h.backupCount
        IN  /\ Len(h.backups) <= B
            /\ Len(h.backups) = (IF h.gen <= B THEN h.gen ELSE B)
            /\ \A i \in DOMAIN h.backups :
                  /\ h.backups[i].gen = h.gen - i
                  /\ h.backups[i].size < M
            /\ h.pos < M
            /\ h.written >= (B + 1) * M => 1 + Len(h.backups) = B + 1
            /\ (M = 1024 /\ B = 2 /\ h.written >= 5 * 1024) =>
                  1 + Len(h.backups) = 3
            /\ h.last # <<>> =>
                  LET w == h.last[1] IN
                  /\ w.pos + w.len > M =>
                        /\ h.gen = w.gen + 1
                        /\ h.pos = w.len
                        /\ h.backups[1] = [gen |-> w.gen, size |-> w.pos]
                        /\ \A i \in DOMAIN w.backups :
                              IF i < B THEN h.backups[i + 1] = w.backups[i]
                              ELSE \A j \in DOMAIN h.backups :
                                      h.backups[j].gen # w.backups[i].gen
                  /\ w.pos + w.len < M =>
                        /\ h.gen = w.gen
                        /\ h.pos = w.pos + w.len
                        /\ h.backups = w.backups

\* 5 KB written through the 1 KB, 2-backup handler, the last write having
\* archived the active file and discarded the oldest of two generations
C11_Witness ==
    /\ rotating # <<>>
    /\ rotating[1].maxBytes = 1024
    /\ rotating[1].backupCount = 2
    /\ rotating[1].written >= 5 * 1024
    /\ rotating[1].last # <<>>
    /\ Len(rotating[1].last[1].backups) = 2
    /\ rotating[1].gen = rotating[1].last[1].gen + 1
    /\ Len(rotating[1].backups) = 2

(***************************************************************************)
(* Properties of log_exception (SpecFailure).                              *)
(***************************************************************************)
\* the records of the last log_exception call that are at severity levelno
RecordsAt(levelno) ==
    { k \in DOMAIN logged[1].records : logged[1].records[k].levelno = levelno }

SummaryFirst ==
    /\ RecordsAt(ERROR) = {1}
    /\ logged[1].records[1].msg =
          << logged[1].message, ": ", logged[1].exception.kind, ": ",
             logged[1].exception.text >>
    /\ RecordsAt(DEBUG) = DOMAIN logged[1].records \ {1}

FileSinks(lg) ==
    { i \in DOMAIN lg.handlers : lg.handlers[i].class = "RotatingFileHandler" }

\* C13: a get_logger call without a log_to_file option, in an environment
\* without LFN_LOG_FILE, yields a handle with file sinks if and only if the
\* module name contains batch, realtime, recorder or health, and a handle
\* with console sinks alone otherwise; an explicit log_to_file is used as
\* given: true attaches file sinks, false none, a file name file sinks
\* whose general file has that name, whatever the module name and the
\* environment.
C13_FileDefaultFollowsName ==
    Returned =>
        LET f == call[1].f
            lg == loggers[f.module_name]
            named == \E i \in DOMAIN f.module_name :
                        f.module_name[i] \in {"batch", "realtime", "recorder", "health"}
        IN  /\ (f.log_to_file.tag = "absent" /\ f.environ.LFN_LOG_FILE = <<>>) =>
                  /\ FileSinks(lg) # {} <=> named
                  /\ ~named => \A i \in DOMAIN lg.handlers :
                                  lg.handlers[i].class = "StreamHandler"
            /\ f.log_to_file.tag = "bool" => (FileSinks(lg) # {} <=> f.log_to_file.b)
            /\ f.log_to_file.tag = "str" =>
                  \E i \in FileSinks(lg) :
                      /\ lg.handlers[i].var = "file_handler"
                      /\ lg.handlers[i].baseFilename = f.log_to_file.s

\* get_logger("pkg.batch") with no option and no LFN_LOG_FILE returned a
\* handle with file sinks
C13_Witness ==
    /\ Returned
    /\ call[1].f.log_to_file.tag = "absent"
    /\ call[1].f.environ.LFN_LOG_FILE = <<>>
    /\ call[1].f.module_name = <<"pkg", ".", "batch">>
    /\ FileSinks(loggers[call[1].f.module_name]) # {}

(***************************************************************************)
(* Properties of create_session_log (SpecSession).                         *)
(***************************************************************************)
ReturnedSessions == { i \in DOMAIN sessions : sessions[i].outcome = "returned" }

WithErrorMarker(name) ==
    IF name # <<>> /\ name[Len(name)] \in {".log", ".txt"}
    THEN SubSeq(name, 1, Len(name) - 1) \o <<"_error", name[Len(name)]>>
    ELSE name \o <<"_error">>

\* C15: for every general log file name, generated or supplied by the
\* caller, the errors-only sink of a handle writes to the file whose name is
\* the general name with _error before the extension, and the general and
\* the errors-only sink of one handle never write to the same file.
C15_ErrorFileIsSibling ==
    Returned =>
        LET lg == loggers[call[1].f.module_name] IN
        \A i, j \in FileSinks(lg) :
            (lg.handlers[i].var = "file_handler" /\ lg.handlers[j].var = "error_handler") =>
                /\ lg.handlers[j].baseFilename = WithErrorMarker(lg.handlers[i].baseFilename)
                /\ lg.handlers[j].baseFilename # lg.handlers[i].baseFilename

(***************************************************************************)
(* Properties of the level of an existing handle (SpecLevels).             *)
(***************************************************************************)
\* the last get_logger call returned a handle that an earlier call had
\* configured
Reconfigured == Returned /\ call[1].before # NOTSET

\* C16 as stated: a later get_logger call for a name changes the threshold
\* of its handle when it supplies an explicit level or the debug override
\* is set; a later call that supplies no level, the debug override not set,
\* leaves the threshold as the earlier call resolved it.
C16_LevelKeptWithoutExplicit ==
    Reconfigured =>
        LET f == call[1].f
            level == loggers[f.module_name].level
        IN  /\ f.environ.LFN_DEBUG = "1" => level = DEBUG
            /\ (f.environ.LFN_DEBUG # "1" /\ f.log_level # None) => level = f.log_level
            /\ (f.environ.LFN_DEBUG # "1" /\ f.log_level = None) => level = call[1].before

\* C16 amended: every later get_logger call for a name resolves the
\* threshold of its handle anew: DEBUG when the debug override is set,
\* else the explicit level when the call supplies one, else the level
\* LFN_LOG_LEVEL names, or INFO when it names none, whatever threshold the
\* earlier call resolved.
C16_LevelResolvedAnew ==
    Reconfigured =>
        LET f == call[1].f
            level == loggers[f.module_name].level
        IN  /\ f.environ.LFN_DEBUG = "1" => level = DEBUG
            /\ (f.environ.LFN_DEBUG # "1" /\ f.log_level # None) => level = f.log_level
            /\ (f.environ.LFN_DEBUG # "1" /\ f.log_level = None) =>
                  level = NamedSeverity(f.environ.LFN_LOG_LEVEL)

\* a call with no level, the override not set, on a handle an earlier call
\* had set to another threshold than the environment names
C16_Witness ==
    /\ Reconfigured
    /\ call[1].f.environ.LFN_DEBUG # "1"
    /\ call[1].f.log_level = None
    /\ call[1].before # NamedSeverity(call[1].f.environ.LFN_LOG_LEVEL)
    /\ loggers[call[1].f.module_name].level
          = NamedSeverity(call[1].f.environ.LFN_LOG_LEVEL)

(***************************************************************************)
(* Properties of the delivery among configured handles (SpecTree).         *)
(***************************************************************************)
\* C17: a record logged through a configured handle is written by the sinks
\* of that handle alone, by each at most once: no sink of another
\* configured handle, the handle of a dotted ancestor included, writes it.
C17_OwnSinksOnly ==
    emitted # <<>> =>
        LET lines == emitted[1].lines IN
        /\ \A k \in DOMAIN lines :
              lines[k].owner \in DOMAIN loggers => lines[k].owner = emitted[1].name
        /\ \A k, l \in DOMAIN lines :
              (lines[k].owner = lines[l].owner /\ lines[k].var = lines[l].var) => k = l

====
